---------------------------- MODULE Spec2Model ----------------------------
(***************************************************************************)
(* A model of haproxy/haproxy_logfile.py: the HaproxyLogFile class.        *)
(*                                                                         *)
(*   - parse_file: the ingestion loop (count, strip, parse, partition,     *)
(*     time-window filter) followed by _sort_lines;                        *)
(*   - the cmd_* analytics commands, computed as the code computes them.   *)
(*                                                                         *)
(* Text is a sequence of one-character strings.  An optional value         *)
(* (Python's None or a value v) is None == << >> or Some(v) == << v >>.    *)
(* A dict (defaultdict(int)) is a sequence of [key, count] records in      *)
(* iteration order, with pairwise distinct keys.                           *)
(***************************************************************************)
EXTENDS Integers, Sequences, FiniteSets, TLC

VARIABLES
    logfile,        \* None, or Some(the lines of the file at self.logfile)
    unread,         \* the lines the file iterator has not yielded yet
    start_time,     \* self.start_time: None or Some(date)
    delta,          \* self.delta: None or Some(duration)
    end_time,       \* self.end_time: None or Some(date)
    total_lines,    \* self.total_lines
    valid_lines,    \* self._valid_lines
    invalid_lines,  \* self._invalid_lines
    pc,             \* position of the caller: "parsing", "done", "error"
    ips_dict,       \* the histogram cmd_top_ips gets from cmd_ip_counter
    results         \* what each command returned when it was last called

vars == << logfile, unread, start_time, delta, end_time, total_lines,
           valid_lines, invalid_lines, pc, ips_dict, results >>

-----------------------------------------------------------------------------
(* Bounds of the model. *)

MaxLines == 3       \* lines in a log file
MaxDate == 3        \* accept dates are 1..MaxDate
MaxDelta == 1       \* window lengths are 0..MaxDelta
MaxQueue == 3       \* queue_backend values are 0..MaxQueue
MaxLen == 4         \* log lines cmd_queue_peaks is run on
MaxEntries == 2     \* log lines the whole command set is run on
MaxCalls == 2       \* different commands called on one store
MaxFill == 8        \* keys of equal count at the front of a histogram
MaxTail == 4        \* keys of any count behind them
MaxCount == 3       \* their counts are 1..MaxCount

-----------------------------------------------------------------------------
(* Helpers for optional values, sequences and text. *)

None == << >>

Some(v) == << v >>

Range(s) == { s[i] : i \in 1..Len(s) }

Digits == << "0", "1", "2", "3", "4", "5", "6", "7", "8", "9" >>

DigitOf(n) == Digits[n + 1]

ValueOf(c) == CHOOSE n \in 0..9 : Digits[n + 1] = c

\* the characters str.strip() removes that a string can hold here: space,
\* tab, line feed, vertical tab, form feed, carriage return, the separators
\* 1C..1F, next line (85), no-break space (A0) and the ogham space mark
\* (1680); the other Unicode spaces (2000..200A, 2028, 2029, 202F, 205F,
\* 3000) cannot be written in a string and are in no text of the model
Whitespace ==
    { " ", "\t", "\n", "", "\f", "\r", "", "", "", "",
      "", " ", " " }

-----------------------------------------------------------------------------
(* The log line: haproxy.haproxy_logline.HaproxyLogLine, the external line  *)
(* parser.  Its grammar here: a well-formed line is three characters, the   *)
(* digit of the accept date, the digit of the backend queue, and a letter   *)
(* that stands for the other fields of the line.                            *)

FieldsOf ==
    "a" :> [ http_request_method |-> "GET",
             captured_request_headers |-> None,
             status_code |-> 200,
             http_request_path |-> "/",
             time_wait_response |-> 1000,
             server_name |-> "srv1" ]
 @@ "b" :> [ http_request_method |-> "POST",
             captured_request_headers |-> Some(<< "{", "7", "}" >>),
             status_code |-> 404,
             http_request_path |-> "/x",
             time_wait_response |-> 1001,
             server_name |-> "srv2" ]
 @@ "c" :> [ http_request_method |-> "GET",
             captured_request_headers |-> Some(<< "{", "8", "}" >>),
             status_code |-> 200,
             http_request_path |-> "/x",
             time_wait_response |-> 2000,
             server_name |-> "srv1" ]

LogLine(date, queue, letter) ==
    [ valid |-> TRUE,
      accept_date |-> date,
      queue_backend |-> queue,
      http_request_method |-> FieldsOf[letter].http_request_method,
      captured_request_headers |-> FieldsOf[letter].captured_request_headers,
      status_code |-> FieldsOf[letter].status_code,
      http_request_path |-> FieldsOf[letter].http_request_path,
      time_wait_response |-> FieldsOf[letter].time_wait_response,
      server_name |-> FieldsOf[letter].server_name ]

WellFormed(text) ==
    /\ Len(text) = 3
    /\ text[1] \in Range(Digits)
    /\ text[2] \in Range(Digits)
    /\ text[3] \in DOMAIN FieldsOf

HaproxyLogLine(text) ==
    IF WellFormed(text)
    THEN LogLine(ValueOf(text[1]), ValueOf(text[2]), text[3])
    ELSE [ valid |-> FALSE ]

\* the text of a well-formed line
Text(date, queue, letter) == << DigitOf(date), DigitOf(queue), letter >>

-----------------------------------------------------------------------------
(* __init__ and parse_file. *)

\* lines 13-15: end_time is start + delta only when both are given
EndTime(start, d) ==
    IF start # None /\ d # None THEN Some(start[1] + d[1]) ELSE None

\* line 29: str.strip() removes leading and trailing whitespace
RECURSIVE LStrip(_)
LStrip(text) ==
    IF text # << >> /\ Head(text) \in Whitespace
    THEN LStrip(Tail(text))
    ELSE text

RECURSIVE RStrip(_)
RStrip(text) ==
    IF text # << >> /\ text[Len(text)] \in Whitespace
    THEN RStrip(SubSeq(text, 1, Len(text) - 1))
    ELSE text

\* a strip that forgets the leading whitespace
StripTrailingOnly(text) == RStrip(text)

Strip(text) == RStrip(LStrip(text))

\* a window that is open at both ends
IsInTimeRangeExclusive(start, end, log_line) ==
    IF start = None THEN TRUE
    ELSE IF start[1] >= log_line.accept_date THEN FALSE
    ELSE IF end = None THEN TRUE
    ELSE IF end[1] <= log_line.accept_date THEN FALSE
    ELSE TRUE

\* lines 192-206
IsInTimeRange(start, end, log_line) ==
    IF start = None THEN TRUE
    ELSE IF start[1] > log_line.accept_date THEN FALSE
    ELSE IF end = None THEN TRUE
    ELSE IF end[1] < log_line.accept_date THEN FALSE
    ELSE TRUE

\* sorted(iterable, key=...): a stable sort.  keys[i] is the key of items[i];
\* an item goes behind every item whose key is not greater than its own.
RECURSIVE InsertSorted(_, _, _, _)
InsertSorted(items, keys, x, k) ==
    IF items = << >> THEN << x >>
    ELSE IF k < keys[Len(keys)]
         THEN Append(InsertSorted(SubSeq(items, 1, Len(items) - 1),
                                  SubSeq(keys, 1, Len(keys) - 1), x, k),
                     items[Len(items)])
         ELSE Append(items, x)

RECURSIVE InsertKey(_, _)
InsertKey(keys, k) ==
    IF keys = << >> THEN << k >>
    ELSE IF k < keys[Len(keys)]
         THEN Append(InsertKey(SubSeq(keys, 1, Len(keys) - 1), k), keys[Len(keys)])
         ELSE Append(keys, k)

RECURSIVE SortedKeys(_)
SortedKeys(keys) ==
    IF keys = << >> THEN << >>
    ELSE InsertKey(SortedKeys(SubSeq(keys, 1, Len(keys) - 1)), keys[Len(keys)])

RECURSIVE PySorted(_, _)
PySorted(items, keys) ==
    IF items = << >> THEN << >>
    ELSE LET n == Len(items)
         IN InsertSorted(PySorted(SubSeq(items, 1, n - 1), SubSeq(keys, 1, n - 1)),
                         SortedKeys(SubSeq(keys, 1, n - 1)), items[n], keys[n])

\* a sort that puts an item in front of the items with an equal key
RECURSIVE InsertInFront(_, _)
InsertInFront(lines, x) ==
    IF lines = << >> THEN << x >>
    ELSE IF x.accept_date <= lines[Len(lines)].accept_date
         THEN Append(InsertInFront(SubSeq(lines, 1, Len(lines) - 1), x),
                     lines[Len(lines)])
         ELSE Append(lines, x)

RECURSIVE SortLinesUnstable(_)
SortLinesUnstable(lines) ==
    IF lines = << >> THEN << >>
    ELSE InsertInFront(SortLinesUnstable(SubSeq(lines, 1, Len(lines) - 1)),
                       lines[Len(lines)])

\* lines 208-219
SortLines(lines) ==
    PySorted(lines, [ i \in 1..Len(lines) |-> lines[i].accept_date ])

\* lines 23-24: no log file configured
ParseFileNoLogfile ==
    /\ pc = "parsing"
    /\ logfile = None
    /\ pc' = "error"
    /\ UNCHANGED << logfile, unread, start_time, delta, end_time, total_lines,
                    valid_lines, invalid_lines, ips_dict, results >>

\* a loop body that counts a line only when it stores it
IngestLineCountsStored(st, line, start, end) ==
    LET stripped_line == Strip(line)
        parsed_line == HaproxyLogLine(stripped_line)
    IN IF ~parsed_line.valid
       THEN [ st EXCEPT !.total_lines = @ + 1,
                        !.invalid_lines = Append(@, stripped_line) ]
       ELSE IF IsInTimeRange(start, end, parsed_line)
       THEN [ st EXCEPT !.total_lines = @ + 1,
                        !.valid_lines = Append(@, parsed_line) ]
       ELSE st

\* lines 28-35: the body of the loop over the file, on the store st
IngestLine(st, line, start, end) ==
    LET counted == [ st EXCEPT !.total_lines = @ + 1 ]
        stripped_line == Strip(line)
        parsed_line == HaproxyLogLine(stripped_line)
    IN IF ~parsed_line.valid
       THEN [ counted EXCEPT !.invalid_lines = Append(@, stripped_line) ]
       ELSE IF IsInTimeRange(start, end, parsed_line)
       THEN [ counted EXCEPT !.valid_lines = Append(@, parsed_line) ]
       ELSE counted

\* lines 17-20: the store of a new object
EmptyStore == [ total_lines |-> 0, valid_lines |-> << >>, invalid_lines |-> << >> ]

\* lines 27-35: one iteration of the loop over the file
ParseLine ==
    /\ pc = "parsing"
    /\ logfile # None
    /\ unread # << >>
    /\ LET st == IngestLine([ total_lines |-> total_lines,
                              valid_lines |-> valid_lines,
                              invalid_lines |-> invalid_lines ],
                            Head(unread), start_time, end_time)
       IN /\ total_lines' = st.total_lines
          /\ valid_lines' = st.valid_lines
          /\ invalid_lines' = st.invalid_lines
    /\ unread' = Tail(unread)
    /\ UNCHANGED << logfile, start_time, delta, end_time, pc, ips_dict, results >>

\* line 37: the loop is over, _sort_lines() and return
ParseFileSort ==
    /\ pc = "parsing"
    /\ logfile # None
    /\ unread = << >>
    /\ valid_lines' = SortLines(valid_lines)
    /\ pc' = "done"
    /\ UNCHANGED << logfile, unread, start_time, delta, end_time, total_lines,
                    invalid_lines, ips_dict, results >>

\* lines 22-37: parse_file as a whole, the store it leaves
RECURSIVE IngestAll(_, _, _, _)
IngestAll(st, lines, start, end) ==
    IF lines = << >> THEN st
    ELSE IngestAll(IngestLine(st, Head(lines), start, end), Tail(lines), start, end)

ParseFile(file, start, end) ==
    LET st == IngestAll(EmptyStore, file, start, end)
    IN [ st EXCEPT !.valid_lines = SortLines(@) ]

-----------------------------------------------------------------------------
(* The analytics commands, as functions of the store. *)

\* lines 39-43: the names of the cmd_ methods
Commands ==
    { "counter", "counter_invalid", "http_methods", "ip_counter", "top_ips",
      "status_codes_counter", "request_path_counter", "slow_requests",
      "server_load", "queue_peaks" }

NotCalled == [ c \in Commands |-> None ]

\* defaultdict(int): counter[key] += 1
Increment(counter, key) ==
    IF \E i \in 1..Len(counter) : counter[i].key = key
    THEN [ i \in 1..Len(counter) |->
             IF counter[i].key = key
             THEN [ counter[i] EXCEPT !.count = @ + 1 ]
             ELSE counter[i] ]
    ELSE Append(counter, [ key |-> key, count |-> 1 ])

RECURSIVE Counted(_)
Counted(keys) ==
    IF keys = << >> THEN << >>
    ELSE Increment(Counted(SubSeq(keys, 1, Len(keys) - 1)), keys[Len(keys)])

\* lines 45-46
CmdCounter(lines) == Len(lines)

\* lines 48-49
CmdCounterInvalid(invalid) == Len(invalid)

\* lines 51-55
CmdHttpMethods(lines) ==
    Counted([ i \in 1..Len(lines) |-> lines[i].http_request_method ])

\* lines 57-67: the header without its first and last character
CmdIpCounter(lines) ==
    LET captured == SelectSeq(lines, LAMBDA l : l.captured_request_headers # None)
    IN Counted([ i \in 1..Len(captured) |->
                   LET header == captured[i].captured_request_headers[1]
                   IN SubSeq(header, 2, Len(header) - 1) ])

\* line 75
TopThreshold == 10

\* line 80
MinRepetitionsStart == 99999

\* lines 96-99: the first position of ips_list that holds min_ip, if any
ReplaceMin(ips_list, min_ip, current_ip) ==
    LET hits == { p \in 1..Len(ips_list) :
                    min_ip # None /\ ips_list[p].ip = min_ip[1] }
    IN IF hits = { } THEN ips_list
       ELSE [ ips_list EXCEPT ![CHOOSE p \in hits : \A q \in hits : p <= q] = current_ip ]

\* lines 84-99: the body of the loop over the histogram
TopIpsStep(st, entry) ==
    LET ip == entry.key
        repetitions == entry.count
        current_ip == [ ip |-> ip, repetitions |-> repetitions ]
    IN IF Len(st.ips_list) < TopThreshold
       THEN IF repetitions < st.min_repetitions
            THEN [ ips_list |-> Append(st.ips_list, current_ip),
                   min_repetitions |-> repetitions,
                   min_ip |-> Some(ip) ]
            ELSE [ st EXCEPT !.ips_list = Append(@, current_ip) ]
       ELSE IF repetitions > st.min_repetitions
            THEN [ st EXCEPT !.ips_list = ReplaceMin(@, st.min_ip, current_ip) ]
            ELSE st

RECURSIVE TopIpsLoop(_, _)
TopIpsLoop(st, entries) ==
    IF entries = << >> THEN st
    ELSE TopIpsLoop(TopIpsStep(st, Head(entries)), Tail(entries))

\* lines 75-103, on the histogram of line 76
TopIps(histogram) ==
    LET st == TopIpsLoop([ ips_list |-> << >>,
                           min_repetitions |-> MinRepetitionsStart,
                           min_ip |-> None ], histogram)
    IN PySorted(st.ips_list,
                [ i \in 1..Len(st.ips_list) |-> 0 - st.ips_list[i].repetitions ])

\* lines 69-103
CmdTopIps(lines) == TopIps(CmdIpCounter(lines))

\* lines 105-111
CmdStatusCodesCounter(lines) ==
    Counted([ i \in 1..Len(lines) |-> lines[i].status_code ])

\* lines 113-118
CmdRequestPathCounter(lines) ==
    Counted([ i \in 1..Len(lines) |-> lines[i].http_request_path ])

\* the lines that are not slow
NotSlow(lines) == SelectSeq(lines, LAMBDA l : ~(l.time_wait_response > 1000))

\* lines 120-133
CmdSlowRequests(lines) ==
    LET slow == SelectSeq(lines, LAMBDA l : l.time_wait_response > 1000)
    IN [ i \in 1..Len(slow) |-> slow[i].time_wait_response ]

\* lines 135-142
CmdServerLoad(lines) ==
    Counted([ i \in 1..Len(lines) |-> lines[i].server_name ])

\* line 154
PeakThreshold == 1

\* lines 163-181: the body of the loop over the valid lines
QueuePeaksStep(st, line) ==
    LET queue == line.queue_backend
        span == IF queue > 0 THEN st.current_span + 1 ELSE st.current_span
        first == IF queue > 0 /\ st.first_on_queue = None
                 THEN Some(line.accept_date) ELSE st.first_on_queue
        emit == queue = 0 /\ st.current_peak > PeakThreshold
        peak == IF emit THEN 0 ELSE st.current_peak
    IN [ peaks |-> IF emit
                   THEN Append(st.peaks, [ peak |-> st.current_peak,
                                           span |-> span,
                                           first |-> first,
                                           last |-> line.accept_date ])
                   ELSE st.peaks,
         current_peak |-> IF queue > peak THEN queue ELSE peak,
         queue |-> queue,
         current_span |-> IF emit THEN 0 ELSE span,
         first_on_queue |-> IF emit THEN None ELSE first,
         last_date |-> line.accept_date ]

RECURSIVE QueuePeaksLoop(_, _)
QueuePeaksLoop(st, lines) ==
    IF lines = << >> THEN st
    ELSE QueuePeaksLoop(QueuePeaksStep(st, Head(lines)), Tail(lines))

InitialPeaksState ==
    [ peaks |-> << >>,
      current_peak |-> 0,
      queue |-> 0,
      current_span |-> 0,
      first_on_queue |-> None,
      last_date |-> 0 ]

\* a command without the case of a series that does not end
CmdQueuePeaksNoOpenSeries(lines) ==
    QueuePeaksLoop(InitialPeaksState, lines).peaks

\* lines 154-190
CmdQueuePeaks(lines) ==
    LET st == QueuePeaksLoop(InitialPeaksState, lines)
    IN IF st.queue > 0 /\ st.current_peak > PeakThreshold
       THEN Append(st.peaks, [ peak |-> st.current_peak,
                               span |-> st.current_span,
                               first |-> st.first_on_queue,
                               last |-> st.last_date ])
       ELSE st.peaks

\* a command returns: its result is what the caller holds from now on
Returns(c, value) ==
    /\ pc = "done"
    /\ \/ results[c] # None
       \/ Cardinality({ d \in Commands : results[d] # None }) < MaxCalls
    /\ results' = [ results EXCEPT ![c] = Some(value) ]
    /\ UNCHANGED << logfile, unread, start_time, delta, end_time, total_lines,
                    valid_lines, invalid_lines, pc, ips_dict >>

CallCounter == Returns("counter", CmdCounter(valid_lines))

CallCounterInvalid == Returns("counter_invalid", CmdCounterInvalid(invalid_lines))

CallHttpMethods == Returns("http_methods", CmdHttpMethods(valid_lines))

CallIpCounter == Returns("ip_counter", CmdIpCounter(valid_lines))

CallTopIps == Returns("top_ips", CmdTopIps(valid_lines))

CallStatusCodesCounter ==
    Returns("status_codes_counter", CmdStatusCodesCounter(valid_lines))

CallRequestPathCounter ==
    Returns("request_path_counter", CmdRequestPathCounter(valid_lines))

\* a command that takes the slow requests out of the store
CallSlowRequestsDraining ==
    /\ pc = "done"
    /\ \/ results["slow_requests"] # None
       \/ Cardinality({ d \in Commands : results[d] # None }) < MaxCalls
    /\ results' = [ results EXCEPT
                      !["slow_requests"] = Some(CmdSlowRequests(valid_lines)) ]
    /\ valid_lines' = NotSlow(valid_lines)
    /\ UNCHANGED << logfile, unread, start_time, delta, end_time, total_lines,
                    invalid_lines, pc, ips_dict >>

CallSlowRequests == Returns("slow_requests", CmdSlowRequests(valid_lines))

CallServerLoad == Returns("server_load", CmdServerLoad(valid_lines))

CallQueuePeaks == Returns("queue_peaks", CmdQueuePeaks(valid_lines))

\* lines 77-103 of cmd_top_ips, when line 76 gave it the histogram ips_dict
CallTopIpsOn == Returns("top_ips", TopIps(ips_dict))

-----------------------------------------------------------------------------
(* The files parse_file is run on. *)

\* a blank line and a line that is not a record
Garbage == { << >>, << "1", " ", "x" >> }

\* well-formed lines of every accept date 1..MaxDate, two different ones of
\* date 1, and the garbage
Cores ==
    { Text(d, 0, "a") : d \in 1..MaxDate } \cup { Text(1, 1, "a") } \cup Garbage

\* the whitespace around a line: only the line end, or blanks, tabs and
\* ogham space marks as well
PadStyles ==
    { << << >>, << "\n" >> >>,
      << << " ", "\t", " " >>, << " ", "\t", " ", "\n" >> >> }

\* every line of a file is padded the same way
File(cores, pad) == [ i \in 1..Len(cores) |-> pad[1] \o cores[i] \o pad[2] ]

\* lines 8-20: HaproxyLogFile(logfile, start, delta)
Init ==
    /\ \/ logfile = None
       \/ \E n \in 0..MaxLines :
             \E cores \in [1..n -> Cores], pad \in PadStyles :
                logfile = Some(File(cores, pad))
    /\ unread = IF logfile = None THEN << >> ELSE logfile[1]
    /\ start_time \in { None } \cup { Some(d) : d \in 1..MaxDate }
    /\ delta \in { None } \cup { Some(d) : d \in 0..MaxDelta }
    /\ end_time = EndTime(start_time, delta)
    /\ total_lines = 0
    /\ valid_lines = << >>
    /\ invalid_lines = << >>
    /\ pc = "parsing"
    /\ ips_dict = << >>
    /\ results = NotCalled

Next ==
    \/ ParseFileNoLogfile
    \/ ParseLine
    \/ ParseFileSort

Spec == Init /\ [][Next]_vars

-----------------------------------------------------------------------------
(* cmd_queue_peaks, on the store parse_file leaves of a file of well-formed *)
(* lines in chronological order, dates 1..MaxDate and queues 0..MaxQueue.   *)

Chronological(n) ==
    { dates \in [1..n -> 1..MaxDate] : \A i \in 1..n - 1 : dates[i] <= dates[i + 1] }

PeakFile(dates, queues) ==
    [ i \in 1..Len(dates) |-> Text(dates[i], queues[i], "a") \o << "\n" >> ]

\* HaproxyLogFile(logfile).parse_file() has returned
AfterParseFile(file) ==
    /\ logfile = Some(file)
    /\ unread = << >>
    /\ start_time = None
    /\ delta = None
    /\ end_time = EndTime(start_time, delta)
    /\ LET st == ParseFile(logfile[1], start_time, end_time)
       IN /\ total_lines = st.total_lines
          /\ valid_lines = st.valid_lines
          /\ invalid_lines = st.invalid_lines
    /\ pc = "done"
    /\ ips_dict = CmdIpCounter(valid_lines)
    /\ results = NotCalled

InitPeaks ==
    \E n \in 0..MaxLen :
        \E dates \in Chronological(n), queues \in [1..n -> 0..MaxQueue] :
            AfterParseFile(PeakFile(dates, queues))

NextPeaks == CallQueuePeaks

SpecPeaks == InitPeaks /\ [][NextPeaks]_vars

-----------------------------------------------------------------------------
(* The whole command set, on the store parse_file leaves of a file whose    *)
(* i-th line has accept date i, or is garbage.                              *)

CmdCores ==
    { << DigitOf(q), letter >> : q \in { 0, 2 }, letter \in DOMAIN FieldsOf }
        \cup { << "x" >> }

CmdFile(cores) ==
    [ i \in 1..Len(cores) |->
        IF Len(cores[i]) = 2
        THEN << DigitOf(i) >> \o cores[i] \o << "\n" >>
        ELSE cores[i] \o << "\n" >> ]

InitCmds ==
    \E n \in 0..MaxEntries :
        \E cores \in [1..n -> CmdCores] : AfterParseFile(CmdFile(cores))

NextCmds ==
    \/ CallCounter
    \/ CallCounterInvalid
    \/ CallHttpMethods
    \/ CallIpCounter
    \/ CallTopIps
    \/ CallStatusCodesCounter
    \/ CallRequestPathCounter
    \/ CallSlowRequests
    \/ CallServerLoad
    \/ CallQueuePeaks

SpecCmds == InitCmds /\ [][NextCmds]_vars

-----------------------------------------------------------------------------
(* cmd_top_ips as a function of the histogram that cmd_ip_counter returns:  *)
(* Init draws the histogram, the log it was counted from is left out.       *)

\* the i-th key of a histogram, in iteration order
Key(i) == << DigitOf(i \div 10), DigitOf(i % 10) >>

Histogram(counts) ==
    [ i \in 1..Len(counts) |-> [ key |-> Key(i), count |-> counts[i] ] ]

\* up to MaxFill keys of one count, then up to MaxTail keys of any count
Fill(c, k) == [ i \in 1..k |-> c ]

\* TopThreshold + 1 keys of pairwise distinct counts base + 1, base + 2, ...:
\* the ascending order with one count moved to another place, or the reverse
\* of that; the counts lie below, around or above MinRepetitionsStart
Ascending == [ i \in 1..TopThreshold + 1 |-> i ]

Move(s, i, j) ==
    LET without == SubSeq(s, 1, i - 1) \o SubSeq(s, i + 1, Len(s))
    IN SubSeq(without, 1, j - 1) \o << s[i] >> \o SubSeq(without, j, Len(without))

Reverse(s) == [ i \in 1..Len(s) |-> s[Len(s) + 1 - i] ]

Bases == { 0, MinRepetitionsStart - 6, MinRepetitionsStart - 1 }

InitTopIps ==
    /\ \/ \E c \in 1..MaxCount, k \in 0..MaxFill, n \in 0..MaxTail :
             \E tail \in [1..n -> 1..MaxCount] :
                ips_dict = Histogram(Fill(c, k) \o tail)
       \/ \E base \in Bases, i \in 1..TopThreshold + 1, j \in 1..TopThreshold + 1,
             backwards \in BOOLEAN :
             LET order == IF backwards THEN Reverse(Move(Ascending, i, j))
                          ELSE Move(Ascending, i, j)
             IN ips_dict = Histogram([ k \in 1..Len(order) |-> base + order[k] ])
    /\ logfile = Some(<< >>)
    /\ unread = << >>
    /\ start_time = None
    /\ delta = None
    /\ end_time = None
    /\ total_lines = 0
    /\ valid_lines = << >>
    /\ invalid_lines = << >>
    /\ pc = "done"
    /\ results = NotCalled

NextTopIps == CallTopIpsOn

SpecTopIps == InitTopIps /\ [][NextTopIps]_vars

-----------------------------------------------------------------------------
(* What the claims about parse_file speak of. *)

\* the lines of the file, and how many of them the loop has read
FileLines == IF logfile = None THEN << >> ELSE logfile[1]

NumRead == Len(FileLines) - Len(unread)

\* a text without its leading and trailing whitespace
Trimmed(text) ==
    LET inked == { i \in 1..Len(text) : text[i] \notin Whitespace }
    IN IF inked = { } THEN << >>
       ELSE SubSeq(text,
                   CHOOSE i \in inked : \A j \in inked : i <= j,
                   CHOOSE i \in inked : \A j \in inked : j <= i)

\* what the line parser makes of the i-th line of the file
Parsed(i) == HaproxyLogLine(Trimmed(FileLines[i]))

\* the window of the specification: start <= date, and date <= start + delta
\* when both are given
InWindow(date) ==
    \/ start_time = None
    \/ /\ start_time[1] <= date
       /\ \/ delta = None
          \/ date <= start_time[1] + delta[1]

\* the lines read so far that are valid and outside of the window
Dropped == { i \in 1..NumRead : Parsed(i).valid /\ ~InWindow(Parsed(i).accept_date) }

\* the entries of the lines read so far that are valid and in the window,
\* in file order
RECURSIVE KeptUpTo(_)
KeptUpTo(n) ==
    IF n = 0 THEN << >>
    ELSE IF Parsed(n).valid /\ InWindow(Parsed(n).accept_date)
         THEN Append(KeptUpTo(n - 1), Parsed(n))
         ELSE KeptUpTo(n - 1)

\* the trimmed text of the lines read so far that are invalid, in file order
RECURSIVE RejectedUpTo(_)
RejectedUpTo(n) ==
    IF n = 0 THEN << >>
    ELSE IF ~Parsed(n).valid
         THEN Append(RejectedUpTo(n - 1), Trimmed(FileLines[n]))
         ELSE RejectedUpTo(n - 1)

Occurrences(s, x) == Cardinality({ i \in 1..Len(s) : s[i] = x })

WithDate(s, d) == SelectSeq(s, LAMBDA e : e.accept_date = d)

\* C6: at every step of parse_file and after it, total_lines is at least
\* len(valid) + len(invalid); the two are equal after ingestion when no
\* start_time is set; and a valid line outside of the window is counted in
\* total_lines and stored in neither collection (the difference is exactly
\* the number of such lines read).
C6_TotalLinesBound ==
    /\ total_lines >= Len(valid_lines) + Len(invalid_lines)
    /\ (pc = "done" /\ start_time = None)
          => total_lines = Len(valid_lines) + Len(invalid_lines)
    /\ total_lines = NumRead
    /\ total_lines - (Len(valid_lines) + Len(invalid_lines)) = Cardinality(Dropped)
    /\ \A i \in Dropped :
          /\ Occurrences(valid_lines, Parsed(i)) = Occurrences(KeptUpTo(NumRead), Parsed(i))
          /\ Trimmed(FileLines[i]) \notin Range(invalid_lines)

\* a finished run that stored one valid line, one invalid line, and dropped one
C6_Witness ==
    /\ pc = "done"
    /\ total_lines = 3
    /\ Len(valid_lines) = 1
    /\ Len(invalid_lines) = 1

\* C7: after parse_file, valid_lines is the in-window valid lines sorted
\* non-decreasing by accept_date, entries of equal accept_date in file order:
\* a permutation of the retained entries, none lost or duplicated.
C7_StableSortByAcceptDate ==
    pc = "done" =>
        /\ \A i \in 1..Len(valid_lines) - 1 :
              valid_lines[i].accept_date <= valid_lines[i + 1].accept_date
        /\ Len(valid_lines) = Len(KeptUpTo(NumRead))
        /\ \A e \in Range(valid_lines) \cup Range(KeptUpTo(NumRead)) :
              Occurrences(valid_lines, e) = Occurrences(KeptUpTo(NumRead), e)
        /\ \A d \in 0..9 :
              WithDate(valid_lines, d) = WithDate(KeptUpTo(NumRead), d)

\* a finished run where the sort moved an entry and two different entries
\* share an accept date
C7_Witness ==
    /\ pc = "done"
    /\ valid_lines # KeptUpTo(NumRead)
    /\ \E i, j \in 1..Len(valid_lines) :
          /\ i < j
          /\ valid_lines[i].accept_date = valid_lines[j].accept_date
          /\ valid_lines[i] # valid_lines[j]

\* C8: a valid entry is retained iff start_time is unset, or start_time <=
\* accept_date and (end_time is unset or accept_date <= end_time), where
\* end_time = start_time + delta only when both are given; the two bounds are
\* inclusive.
C8_WindowMembership ==
    /\ end_time = IF start_time # None /\ delta # None
                  THEN Some(start_time[1] + delta[1]) ELSE None
    /\ \A i \in 1..NumRead :
          Parsed(i).valid =>
             LET e == Parsed(i)
                 copies == Cardinality({ j \in 1..NumRead : Parsed(j) = e })
             IN Occurrences(valid_lines, e) =
                   IF \/ start_time = None
                      \/ /\ start_time[1] <= e.accept_date
                         /\ end_time = None \/ e.accept_date <= end_time[1]
                   THEN copies ELSE 0
    /\ \A e \in Range(valid_lines) : \E i \in 1..NumRead : Parsed(i) = e

\* a finished run with a window that kept an entry accepted at start_time and
\* one accepted at end_time, and dropped a line
C8_Witness ==
    /\ pc = "done"
    /\ start_time # None
    /\ end_time # None
    /\ start_time[1] < end_time[1]
    /\ \E e \in Range(valid_lines) : e.accept_date = start_time[1]
    /\ \E e \in Range(valid_lines) : e.accept_date = end_time[1]
    /\ Dropped # { }

\* C9: a line the parser reports invalid never appears in valid_lines and
\* always appears, trimmed, in invalid_lines, in file order and whatever the
\* window; a parse failure does not stop ingestion: every line is read and
\* invalid_lines is the file-order subsequence of the invalid lines.
C9_InvalidLines ==
    /\ invalid_lines = RejectedUpTo(NumRead)
    /\ \A e \in Range(valid_lines) : e.valid
    /\ \A i \in 1..NumRead :
          ~Parsed(i).valid => Parsed(i) \notin Range(valid_lines)
    /\ pc = "done" => /\ NumRead = Len(FileLines)
                      /\ invalid_lines = RejectedUpTo(Len(FileLines))

\* a finished run under a window whose first line was invalid and padded, a
\* later line valid and stored, and the last line invalid again
C9_Witness ==
    /\ pc = "done"
    /\ start_time # None
    /\ Len(FileLines) = 3
    /\ Len(invalid_lines) = 2
    /\ invalid_lines[1] # invalid_lines[2]
    /\ invalid_lines[1] # FileLines[1]
    /\ Head(FileLines[1]) = " "
    /\ ~Parsed(3).valid
    /\ Len(valid_lines) = 1

-----------------------------------------------------------------------------
(* What the claims about cmd_queue_peaks speak of. *)

QueueAt(i) == valid_lines[i].queue_backend

DateAt(i) == valid_lines[i].accept_date

\* a maximal contiguous run a..b of entries with queue_backend > 0
IsRun(a, b) ==
    /\ a <= b
    /\ \A k \in a..b : QueueAt(k) > 0
    /\ a = 1 \/ QueueAt(a - 1) = 0
    /\ b = Len(valid_lines) \/ QueueAt(b + 1) = 0

RunEnd(a) == CHOOSE b \in a..Len(valid_lines) : IsRun(a, b)

RunMax(a) == CHOOSE m \in { QueueAt(k) : k \in a..RunEnd(a) } :
                 \A k \in a..RunEnd(a) : QueueAt(k) <= m

\* where the runs start whose maximum exceeds 1
ReportedRuns ==
    { a \in 1..Len(valid_lines) :
        /\ \E b \in a..Len(valid_lines) : IsRun(a, b)
        /\ RunMax(a) > 1 }

\* the start of the i-th of them, in chronological order
ReportedRun(i) ==
    CHOOSE a \in ReportedRuns : Cardinality({ x \in ReportedRuns : x < a }) = i - 1

\* the entry that closed the run that starts at a
Closer(a) ==
    IF RunEnd(a) < Len(valid_lines) THEN RunEnd(a) + 1 ELSE Len(valid_lines)

PeaksCalled == results["queue_peaks"] # None

Peaks == results["queue_peaks"][1]

\* C3: cmd_queue_peaks emits one record per maximal contiguous run of entries
\* with queue_backend > 0 whose maximum exceeds 1 (a run still open at the end
\* of the input included), in chronological order, with 'peak' the maximum of
\* the run; a run whose maximum is at most 1 emits no record.
C3_OneRecordPerRun ==
    PeaksCalled =>
        /\ Len(Peaks) = Cardinality(ReportedRuns)
        /\ \A i \in 1..Len(Peaks) : Peaks[i].peak = RunMax(ReportedRun(i))

\* a run of maximum 1 that is not reported, and behind it the record of a run
\* that is still open at the end of the input and whose maximum is not its
\* first entry
C3_Witness ==
    /\ PeaksCalled
    /\ Len(Peaks) = 1
    /\ QueueAt(Len(valid_lines)) > 0
    /\ Peaks[1].peak > QueueAt(ReportedRun(1))
    /\ \E a \in 1..Len(valid_lines) :
          /\ \E b \in a..Len(valid_lines) : IsRun(a, b)
          /\ RunMax(a) = 1

\* C4: in every record, 'span' is the number of entries with queue_backend > 0
\* of the run the record reports, also when a run of maximum at most 1 was
\* discarded before it.
C4_SpanOfTheRun ==
    PeaksCalled =>
        /\ Len(Peaks) = Cardinality(ReportedRuns)
        /\ \A i \in 1..Len(Peaks) :
              Peaks[i].span = RunEnd(ReportedRun(i)) - ReportedRun(i) + 1

\* C5: in every record, 'first' is the accept_date of the first entry of the
\* run the record reports and 'last' the accept_date of the entry that closed
\* it (the first entry with queue_backend = 0 behind the run, or the last
\* entry when the input ends inside the run), also when a run was discarded
\* before it.
C5_FirstAndLastOfTheRun ==
    PeaksCalled =>
        /\ Len(Peaks) = Cardinality(ReportedRuns)
        /\ \A i \in 1..Len(Peaks) :
              /\ Peaks[i].first = Some(DateAt(ReportedRun(i)))
              /\ Peaks[i].last = DateAt(Closer(ReportedRun(i)))

-----------------------------------------------------------------------------
(* What the claims about cmd_top_ips speak of. *)

TopCalled == results["top_ips"] # None

Top == results["top_ips"][1]

Smaller(a, b) == IF a < b THEN a ELSE b

\* the keys of the histogram that the result leaves out
LeftOut ==
    { i \in 1..Len(ips_dict) :
        \A p \in 1..Len(Top) : Top[p].ip # ips_dict[i].key }

\* C1: the result holds min(10, number of keys) entries, and every key left
\* out of it has a count less than or equal to the count of every key in it.
C1_MostFrequentIps ==
    TopCalled =>
        /\ Len(Top) = Smaller(TopThreshold, Len(ips_dict))
        /\ \A i \in LeftOut : \A p \in 1..Len(Top) :
              ips_dict[i].count <= Top[p].repetitions

\* C2: of 11 keys with pairwise distinct counts, in any iteration order, the
\* result holds 10, sorted descending by repetitions, and the key left out is
\* the key of the smallest count.
C2_ElevenKeysDropTheSmallest ==
    ( /\ TopCalled
      /\ Len(ips_dict) = 11
      /\ \A i, j \in 1..Len(ips_dict) :
            i # j => ips_dict[i].count # ips_dict[j].count )
    => /\ Len(Top) = 10
       /\ \A p \in 1..Len(Top) - 1 : Top[p].repetitions >= Top[p + 1].repetitions
       /\ \A i \in LeftOut : \A j \in 1..Len(ips_dict) :
             ips_dict[i].count <= ips_dict[j].count
       /\ Cardinality(LeftOut) = 1

-----------------------------------------------------------------------------
(* What the claim about the command set speaks of. *)

\* C10: no analytics command changes valid_lines, invalid_lines or
\* total_lines, so a command called again, after any other commands, returns
\* what it returned before.
C10_CommandsReadOnly ==
    [][ /\ valid_lines' = valid_lines
        /\ invalid_lines' = invalid_lines
        /\ total_lines' = total_lines
        /\ \A c \in Commands : results[c] # None => results'[c] = results[c]
      ]_vars

\* a store with a slow request and a queue peak, after cmd_slow_requests and
\* cmd_queue_peaks have both been called on it
C10_Witness ==
    /\ results["slow_requests"] # None
    /\ results["queue_peaks"] # None
    /\ results["slow_requests"][1] # << >>
    /\ results["queue_peaks"][1] # << >>
    /\ invalid_lines # << >>

====
